---- MODULE Spec2Model ----
(***************************************************************************)
(* ThreatMapper: the secret-scan ingesters (deepfence_ingester/ingesters/  *)
(* secrets.go) and the generic node lookup (deepfence_server/reporters/    *)
(* lookup/lookup.go), over a property graph store.                         *)
(*                                                                         *)
(* The store is a property graph per namespace: a sequence of nodes (a     *)
(* node's identity is its position; nothing here deletes a node) and a set *)
(* of typed, directed edges.  A Cypher statement is evaluated clause by    *)
(* clause over a table of rows, each clause seeing the writes of the       *)
(* clauses before it and, within a clause, of the rows before it.          *)
(***************************************************************************)
EXTENDS Integers, Sequences, FiniteSets, TLC

VARIABLES store, now, calls, last

vars == <<store, now, calls, last>>

(***************************************************************************)
(* Bounds of the model.                                                    *)
(***************************************************************************)
MaxBatch == 2
MaxCalls == 2
MaxTime == 1

(***************************************************************************)
(* Input pools.                                                            *)
(***************************************************************************)
Namespaces == {"A", "B"}
RuleIds == {1, 2}
RuleNames == <<"n1", "n2">>
HostNames == {"h1", "h2"}
AssetHosts == <<"h1">>
Contents == <<"x", "y">>
ScanIds == {"scan1", "scan2"}
Statuses == {"IN_PROGRESS", "COMPLETE"}

(***************************************************************************)
(* Property maps.                                                          *)
(***************************************************************************)
\* SET n += m that keeps the value a key already has.
SetPlus_KeepOld(props, m) == props @@ m

\* Cypher's  SET n += m : the keys of m overwrite, the other keys of n stay.
SetPlus(props, m) == m @@ props

\* Go's  delete(m, k).
Delete(m, k) == [x \in DOMAIN m \ {k} |-> m[x]]

(***************************************************************************)
(* Wire records.                                                           *)
(***************************************************************************)
\* A Secret record of the scanner.  The rule's name and the matched content
\* stand for the payload fields: variant v of a finding carries the v-th of each.
SecretOf(id, host, v) ==
    [Match |-> [MatchedContent |-> Contents[v]],
     Rule |-> [ID |-> id, Name |-> RuleNames[v]],
     Severity |-> [Level |-> "high"],
     HostName |-> host,
     NodeID |-> "s1",
     ScanID |-> "scan1"]

Secret ==
    {SecretOf(id, host, v) : id \in RuleIds, host \in HostNames, v \in DOMAIN Contents}

SecretScanStatus ==
    [ScanID : ScanIds, ScanStatus : Statuses]

\* utils.ToMap of a struct: a map keyed by the struct's json tags.
RuleToMap(r) == ("id" :> r.ID) @@ ("name" :> r.Name)

MatchToMap(m) == ("matched_content" :> m.MatchedContent)

SeverityToMap(s) == ("level" :> s.Level)

SecretToMap(s) ==
    ("Match" :> MatchToMap(s.Match)) @@ ("Rule" :> RuleToMap(s.Rule))
        @@ ("Severity" :> SeverityToMap(s.Severity))
        @@ ("host_name" :> s.HostName) @@ ("node_id" :> s.NodeID)
        @@ ("scan_id" :> s.ScanID)

StatusToMap(s) == ("scan_id" :> s.ScanID) @@ ("scan_status" :> s.ScanStatus)

\* fmt.Sprintf("%v:%v", i.Rule.ID, i.HostName)
\* A composite key that leaves the host out.
RuleKey_RuleOnly(id, host) == ToString(id)

RuleKey(id, host) == ToString(id) \o ":" \o host

\* The maps of a batch with the nested Match group left in the Finding map.
secretsToMaps_KeepMatch(data) ==
    [i \in 1..Len(data) |->
        LET s == data[i]
            base == Delete(Delete(SecretToMap(s), "Severity"), "Rule")
            spread == MatchToMap(s.Match) @@ SeverityToMap(s.Severity) @@ base
            secret == ("rule_id" :> RuleKey(s.Rule.ID, s.HostName)) @@ spread
        IN [Rule |-> RuleToMap(s.Rule), Secret |-> secret]]

secretsToMaps(data) ==
    [i \in 1..Len(data) |->
        LET s == data[i]
            base == Delete(Delete(Delete(SecretToMap(s), "Severity"), "Rule"), "Match")
            spread == MatchToMap(s.Match) @@ SeverityToMap(s.Severity) @@ base
            secret == ("rule_id" :> RuleKey(s.Rule.ID, s.HostName)) @@ spread
        IN [Rule |-> RuleToMap(s.Rule), Secret |-> secret]]

statusesToMaps(data) == [i \in 1..Len(data) |-> StatusToMap(data[i])]

(***************************************************************************)
(* The graph store and the Cypher clauses the statements use.              *)
(***************************************************************************)
EmptyGraph == [nodes |-> <<>>, edges |-> {}]

NodeIdx(g) == 1..Len(g.nodes)

\* Nodes of a label whose properties contain every key/value of pat.
MatchNodes(g, label, pat) ==
    {i \in NodeIdx(g) :
        /\ g.nodes[i].label = label
        /\ \A k \in DOMAIN pat :
              /\ k \in DOMAIN g.nodes[i].props
              /\ g.nodes[i].props[k] = pat[k]}

RECURSIVE SetToSeq(_)
SetToSeq(S) ==
    IF S = {} THEN <<>>
    ELSE LET m == CHOOSE x \in S : \A y \in S : x <= y
         IN <<m>> \o SetToSeq(S \ {m})

\* MERGE (x:label pat): every node that matches, or else one new node.
MergeNode(g, label, pat) ==
    LET found == MatchNodes(g, label, pat)
    IN IF found # {}
       THEN [g |-> g, ids |-> SetToSeq(found)]
       ELSE [g |-> [g EXCEPT !.nodes = Append(@, [label |-> label, props |-> pat])],
             ids |-> <<Len(g.nodes) + 1>>]

\* SET x += m on node i.
SetProps(g, i, m) == [g EXCEPT !.nodes[i].props = SetPlus(@, m)]

\* The asset nodes the discovery process wrote before any ingestion.
AssetGraph ==
    [nodes |-> [i \in 1..Len(AssetHosts) |->
                  [label |-> "Node", props |-> ("node_id" :> AssetHosts[i])]],
     edges |-> {}]

(***************************************************************************)
(* CommitFuncSecrets' statement, clause by clause.  A row binds rule and   *)
(* row (the two maps of a batch item) and the nodes r, n, m, l.            *)
(***************************************************************************)
\* MERGE (r:Rule{node_id:rule.id})
MergeRuleClause(g, batch) ==
    LET f[i \in 0..Len(batch)] ==
          IF i = 0 THEN [g |-> g, rows |-> <<>>]
          ELSE LET p == f[i - 1]
                   m == MergeNode(p.g, "Rule", ("node_id" :> batch[i].Rule["id"]))
               IN [g |-> m.g,
                   rows |-> p.rows \o
                       [j \in 1..Len(m.ids) |->
                           [rule |-> batch[i].Rule, row |-> batch[i].Secret,
                            r |-> m.ids[j]]]]
    IN f[Len(batch)]

\* SET r+=rule
SetRuleClause(g, rows) ==
    LET f[i \in 0..Len(rows)] ==
          IF i = 0 THEN g ELSE SetProps(f[i - 1], rows[i].r, rows[i].rule)
    IN f[Len(rows)]

\* MERGE (n:Secret{node_id:row.rule_id})
MergeSecretClause(g, rows) ==
    LET f[i \in 0..Len(rows)] ==
          IF i = 0 THEN [g |-> g, rows |-> <<>>]
          ELSE LET p == f[i - 1]
                   m == MergeNode(p.g, "Secret", ("node_id" :> rows[i].row["rule_id"]))
               IN [g |-> m.g,
                   rows |-> p.rows \o
                       [j \in 1..Len(m.ids) |->
                           [rule |-> rows[i].rule, row |-> rows[i].row,
                            r |-> rows[i].r, n |-> m.ids[j]]]]
    IN f[Len(rows)]

\* MERGE (a)-[:type]->(b) for every row, a and b bound.
MergeEdges(g, type, pairs) ==
    [g EXCEPT !.edges = @ \cup {<<type, pairs[i][1], pairs[i][2]>> : i \in DOMAIN pairs}]

\* MERGE (m:SecretScan{node_id: row.scan_id, host_name: row.host_name,
\*                     time_stamp: timestamp()})
ScanPattern(row, ts) ==
    ("node_id" :> row["scan_id"]) @@ ("host_name" :> row["host_name"])
        @@ ("time_stamp" :> ts)

MergeScanClause(g, rows, ts) ==
    LET f[i \in 0..Len(rows)] ==
          IF i = 0 THEN [g |-> g, rows |-> <<>>]
          ELSE LET p == f[i - 1]
                   m == MergeNode(p.g, "SecretScan", ScanPattern(rows[i].row, ts))
               IN [g |-> m.g,
                   rows |-> p.rows \o
                       [j \in 1..Len(m.ids) |->
                           [row |-> rows[i].row, n |-> rows[i].n, m |-> m.ids[j]]]]
    IN f[Len(rows)]

\* MATCH (l:Node{node_id: row.host_name}): a row without a match is dropped.
MatchHostClause(g, rows) ==
    LET f[i \in 0..Len(rows)] ==
          IF i = 0 THEN <<>>
          ELSE LET ls == SetToSeq(MatchNodes(g, "Node",
                                   ("node_id" :> rows[i].row["host_name"])))
               IN f[i - 1] \o
                    [j \in 1..Len(ls) |->
                        [row |-> rows[i].row, n |-> rows[i].n, m |-> rows[i].m,
                         l |-> ls[j]]]
    IN f[Len(rows)]

\* SET l+= row: the properties land on the asset node.
SetSecretClause_SetAsset(g, rows) ==
    LET f[i \in 0..Len(rows)] ==
          IF i = 0 THEN g ELSE SetProps(f[i - 1], rows[i].l, rows[i].row)
    IN f[Len(rows)]

\* SET n+= row
SetSecretClause(g, rows) ==
    LET f[i \in 0..Len(rows)] ==
          IF i = 0 THEN g ELSE SetProps(f[i - 1], rows[i].n, rows[i].row)
    IN f[Len(rows)]

\* The whole statement of CommitFuncSecrets on graph g at statement time ts.
RunSecretsQuery(g, batch, ts) ==
    LET s1 == MergeRuleClause(g, batch)
        g2 == SetRuleClause(s1.g, s1.rows)
        s3 == MergeSecretClause(g2, s1.rows)
        g4 == MergeEdges(s3.g, "IS", [i \in DOMAIN s3.rows |-> <<s3.rows[i].n, s3.rows[i].r>>])
        s5 == MergeScanClause(g4, s3.rows, ts)
        r6 == MatchHostClause(s5.g, s5.rows)
        g7 == MergeEdges(s5.g, "DETECTED", [i \in DOMAIN r6 |-> <<r6[i].m, r6[i].n>>])
        g8 == MergeEdges(g7, "SCANNED", [i \in DOMAIN r6 |-> <<r6[i].m, r6[i].l>>])
    IN SetSecretClause(g8, r6)

(***************************************************************************)
(* CommitFuncSecretScanStatus' statement.                                  *)
(***************************************************************************)
\* MERGE (n:SecretScan{node_id: row.scan_id})
MergeStatusClause(g, batch) ==
    LET f[i \in 0..Len(batch)] ==
          IF i = 0 THEN [g |-> g, rows |-> <<>>]
          ELSE LET p == f[i - 1]
                   m == MergeNode(p.g, "SecretScan", ("node_id" :> batch[i]["scan_id"]))
               IN [g |-> m.g,
                   rows |-> p.rows \o
                       [j \in 1..Len(m.ids) |-> [row |-> batch[i], n |-> m.ids[j]]]]
    IN f[Len(batch)]

\* SET n.status = row.scan_status
SetStatusClause(g, rows) ==
    LET f[i \in 0..Len(rows)] ==
          IF i = 0 THEN g
          ELSE SetProps(f[i - 1], rows[i].n, ("status" :> rows[i].row["scan_status"]))
    IN f[Len(rows)]

RunStatusQuery(g, batch) ==
    LET s1 == MergeStatusClause(g, batch)
    IN SetStatusClause(s1.g, s1.rows)

(***************************************************************************)
(* The handlers.  fail names the store call that returns an error in this  *)
(* run ("none": every call succeeds).  A handler's trace lists the store   *)
(* calls it made, the deferred Close calls included.                       *)
(***************************************************************************)
Failures == {"none", "client", "begin", "run", "commit"}

\* The statement's effect inside the transaction: a statement that fails has
\* written the rows before the failing one.
TxSecrets(g, data, ts, fail) ==
    LET maps == secretsToMaps(data)
    IN IF fail = "run"
       THEN RunSecretsQuery(g, SubSeq(maps, 1, Len(maps) - 1), ts)
       ELSE RunSecretsQuery(g, maps, ts)

TxStatus(g, data, fail) ==
    LET maps == statusesToMaps(data)
    IN IF fail = "run"
       THEN RunStatusQuery(g, SubSeq(maps, 1, Len(maps) - 1))
       ELSE RunStatusQuery(g, maps)

\* A transaction whose writes stay in the store when Commit fails.
TxOutcome_CommitLeak(g, tx, fail) == IF fail \in {"none", "commit"} THEN tx ELSE g

\* defer tx.Close() / return tx.Commit(): the transaction's writes reach the
\* store only when Commit succeeds; Close without Commit rolls them back.
TxOutcome(g, tx, fail) == IF fail = "none" THEN tx ELSE g

\* The store calls of a write handler, up to the call that fails.
WriteTrace(fail) ==
    CASE fail = "client" -> <<"client">>
      [] fail = "begin" -> <<"client", "session", "begin", "session.Close">>
      [] fail = "run" ->
            <<"client", "session", "begin", "run", "tx.Close", "session.Close">>
      [] OTHER ->
            <<"client", "session", "begin", "run", "commit", "tx.Close",
              "session.Close">>

Batches(S) == UNION {[1..n -> S] : n \in 1..MaxBatch}

\* A context that carries one fixed namespace, whatever the caller passes.
NamespaceID_Shared(ns) == "A"

\* ctx := directory.NewContextWithNameSpace(directory.NamespaceID(ns)): the
\* context carries the caller's namespace.
NamespaceID(ns) == ns

\* directory.Neo4jClient(ctx): the handle on the graph of the context's
\* namespace.
Neo4jClient(st, ctx) == st[ctx]

CommitFuncSecrets(ns, data) ==
    /\ calls < MaxCalls
    /\ \E fail \in Failures :
          /\ LET ctx == NamespaceID(ns)
                 g == Neo4jClient(store, ctx)
             IN store' = [store EXCEPT ![ctx] =
                             TxOutcome(g, TxSecrets(g, data, now, fail), fail)]
          /\ last' = [op |-> "CommitFuncSecrets", ns |-> ns, data |-> data,
                      err |-> fail # "none", fail |-> fail, ts |-> now,
                      trace |-> WriteTrace(fail)]
    /\ calls' = calls + 1
    /\ now' = now

\* An empty batch whose client error is examined before its length.
EmptyBatchErr_ErrFirst(fail) == fail = "client"

\* if len(data) == 0 { return nil } stands between directory.Neo4jClient and
\* if err != nil: the empty batch returns nil whatever the client returned.
EmptyBatchErr(fail) == FALSE

CommitFuncSecretScanStatus(ns, data) ==
    /\ calls < MaxCalls
    /\ \E fail \in Failures :
          IF Len(data) = 0
          THEN /\ store' = store
               /\ last' = [op |-> "CommitFuncSecretScanStatus", ns |-> ns,
                           data |-> data, err |-> EmptyBatchErr(fail),
                           fail |-> fail,
                           ts |-> now, trace |-> <<"client">>]
          ELSE /\ LET ctx == NamespaceID(ns)
                      g == Neo4jClient(store, ctx)
                  IN store' = [store EXCEPT ![ctx] =
                                  TxOutcome(g, TxStatus(g, data, fail), fail)]
               /\ last' = [op |-> "CommitFuncSecretScanStatus", ns |-> ns,
                           data |-> data, err |-> fail # "none", fail |-> fail,
                           ts |-> now, trace |-> WriteTrace(fail)]
    /\ calls' = calls + 1
    /\ now' = now

\* Wall-clock time passes between calls.
Tick ==
    /\ now < MaxTime
    /\ now' = now + 1
    /\ UNCHANGED <<store, calls, last>>

NoCall ==
    [op |-> "none", ns |-> "A", data |-> <<>>, err |-> FALSE, fail |-> "none",
     ts |-> 0, trace |-> <<>>]

Init ==
    /\ store = [ns \in Namespaces |-> AssetGraph]
    /\ now = 0
    /\ calls = 0
    /\ last = NoCall

Next ==
    \/ \E data \in {<<>>} \cup Batches(Secret) : CommitFuncSecrets("A", data)
    \/ \E data \in {<<>>} \cup Batches(SecretScanStatus) :
          CommitFuncSecretScanStatus("A", data)
    \/ Tick

Spec == Init /\ [][Next]_vars

(***************************************************************************)
(* One call of CommitFuncSecrets, at any time, on the store that holds the *)
(* asset nodes only.                                                       *)
(***************************************************************************)
FirstCommit(data) == calls = 0 /\ CommitFuncSecrets("A", data)

BatchNext ==
    \/ \E data \in {<<>>} \cup Batches(Secret) : FirstCommit(data)
    \/ Tick

BatchSpec == Init /\ [][BatchNext]_vars

(***************************************************************************)
(* The handlers called under either namespace, with batches of one record. *)
(***************************************************************************)
NsSecrets == {<<SecretOf(id, "h1", 1)>> : id \in RuleIds}

NsStatuses == {<<s>> : s \in SecretScanStatus}

NsNext ==
    \/ \E ns \in Namespaces, data \in NsSecrets : CommitFuncSecrets(ns, data)
    \/ \E ns \in Namespaces, data \in NsStatuses :
          CommitFuncSecretScanStatus(ns, data)
    \/ Tick

NsSpec == Init /\ [][NsNext]_vars

(***************************************************************************)
(* The generic node lookup of lookup.go.                                   *)
(***************************************************************************)
MaxIds == 2

\* A property that is not set, as the driver returns it.
Null == "<null>"

\* The fields of a typed entity (the json tags of its struct).
EntityFields == {"node_id", "name"}

\* dummy.NodeType(): the label of an entity type.
NodeType(T) ==
    CASE T = "Process" -> "Process"
      [] T = "Pod" -> "Pod"
      [] T = "Host" -> "Node"
      [] T = "Container" -> "Container"
      [] T = "ContainerImage" -> "ContainerImage"
      [] T = "KubernetesCluster" -> "KubernetesCluster"
      [] T = "RegistryAccount" -> "RegistryAccount"

\* reporters.FieldFilterCypher("n", fields): the whole node when no field is
\* asked for, else the asked properties in the asked order.
FieldFilterCypher(g, n, fields) ==
    IF Len(fields) = 0
    THEN <<g.nodes[n].props>>
    ELSE [i \in 1..Len(fields) |->
            IF fields[i] \in DOMAIN g.nodes[n].props
            THEN g.nodes[n].props[fields[i]]
            ELSE Null]

\* A property value of a type the entity's field cannot take (a number where
\* the field is a string).
BadValue == "<number>"

\* utils.FromMap(node_map, &node): fields are filled by name, unknown keys are
\* ignored, and a field without a value, or whose value does not decode,
\* keeps its zero value.  The handlers do not look at its outcome.
FromMap(m) ==
    [k \in EntityFields |->
        IF k \in DOMAIN m /\ m[k] \notin {Null, BadValue} THEN m[k] ELSE ""]

InSeq(x, q) == \E i \in DOMAIN q : q[i] = x

\* MATCH (n:label) [WHERE n.node_id IN $ids] OPTIONAL MATCH (n) -[:IS]-> (e)
\* RETURN <fields>, e : one record per pair (n, e), e null when n has no IS edge.
\* A record also remembers the node n it was made from.
LookupRecords(g, label, filter) ==
    LET ns == SetToSeq({n \in NodeIdx(g) :
                  /\ g.nodes[n].label = label
                  /\ \/ Len(filter.NodeIds) = 0
                     \/ /\ "node_id" \in DOMAIN g.nodes[n].props
                        /\ InSeq(g.nodes[n].props["node_id"], filter.NodeIds)})
        f[i \in 0..Len(ns)] ==
          IF i = 0 THEN <<>>
          ELSE LET es == SetToSeq({e \in NodeIdx(g) : <<"IS", ns[i], e>> \in g.edges})
                   vals == FieldFilterCypher(g, ns[i], filter.InFieldFilter)
               IN f[i - 1] \o
                    (IF Len(es) = 0
                     THEN <<[Values |-> vals, e |-> 0, n |-> ns[i]]>>
                     ELSE [j \in 1..Len(es) |->
                             [Values |-> vals, e |-> es[j], n |-> ns[i]]])
    IN f[Len(ns)]

\* The body of the loop over the records, up to the decoding: the node's map
\* with the IS node's properties laid over it except node_id.
MergedMap(g, rec, filter) ==
    LET node_map ==
          IF Len(filter.InFieldFilter) = 0
          THEN rec.Values[1]
          ELSE LET F == filter.InFieldFilter
               IN [k \in {F[i] : i \in DOMAIN F} |->
                     rec.Values[CHOOSE i \in DOMAIN F :
                                   F[i] = k /\ \A j \in DOMAIN F : F[j] = k => j <= i]]
        over ==
          IF rec.e = 0 THEN node_map
          ELSE Delete(g.nodes[rec.e].props, "node_id") @@ node_map
    IN over

\* A map with the classification node's node_id laid over as well.
MapRecord_OverlayAll(g, rec, filter) ==
    FromMap(IF rec.e = 0 THEN MergedMap(g, rec, filter)
            ELSE g.nodes[rec.e].props @@ MergedMap(g, rec, filter))

\* The loop over the records: the merged map decoded into the entity, which
\* is appended to the result.
MapRecord(g, rec, filter) == FromMap(MergedMap(g, rec, filter))

\* The text of the projection: reporters.FieldFilterCypher("n", fields) names
\* the node when no field is asked for, else each asked field as n.<field>.
FieldFilterText(fields) ==
    IF Len(fields) = 0 THEN <<"n">>
    ELSE [i \in 1..Len(fields) |-> "n." \o fields[i]]

\* The text of the statement, as the words the handler concatenates.
LookupQuery(T, filter) ==
    <<"MATCH (n:" \o NodeType(T) \o ")">>
        \o (IF Len(filter.NodeIds) = 0 THEN <<>> ELSE <<"WHERE n.node_id IN $ids">>)
        \o <<"OPTIONAL MATCH (n) -[:IS]-> (e)", "RETURN">>
        \o FieldFilterText(filter.InFieldFilter) \o <<"e">>

LookupFailures == {"none", "client", "session", "begin", "run", "collect"}

\* Store calls of a read that closes its transaction on success only.
LookupTrace_LeakOnError(fail) ==
    CASE fail = "client" -> <<"client">>
      [] fail = "session" -> <<"client", "session">>
      [] fail = "begin" -> <<"client", "session", "begin", "session.Close">>
      [] fail = "run" -> <<"client", "session", "begin", "run", "session.Close">>
      [] fail = "collect" ->
            <<"client", "session", "begin", "run", "collect", "session.Close">>
      [] OTHER ->
            <<"client", "session", "begin", "run", "collect", "tx.Close",
              "session.Close">>

LookupTrace(fail) ==
    CASE fail = "client" -> <<"client">>
      [] fail = "session" -> <<"client", "session">>
      [] fail = "begin" -> <<"client", "session", "begin", "session.Close">>
      [] fail = "run" ->
            <<"client", "session", "begin", "run", "tx.Close", "session.Close">>
      [] OTHER ->
            <<"client", "session", "begin", "run", "collect", "tx.Close",
              "session.Close">>

\* The statement tx.Run was called with, when the handler got that far.
SentQuery(T, filter, fail) ==
    IF fail \in {"client", "session", "begin"} THEN <<>> ELSE LookupQuery(T, filter)

\* A lookup that takes a failed Collect for an empty result.
getGenericDirectNodeReport_IgnoreCollect(g, T, filter, fail) ==
    IF fail \notin {"none", "collect"}
    THEN [res |-> <<>>, err |-> TRUE, trace |-> LookupTrace(fail),
          query |-> SentQuery(T, filter, fail)]
    ELSE LET recs == IF fail = "collect" THEN <<>>
                     ELSE LookupRecords(g, NodeType(T), filter)
         IN [res |-> [i \in 1..Len(recs) |-> MapRecord(g, recs[i], filter)],
             err |-> FALSE,
             trace |-> LookupTrace(fail),
             query |-> SentQuery(T, filter, fail)]

getGenericDirectNodeReport(g, T, filter, fail) ==
    IF fail # "none"
    THEN [res |-> <<>>, err |-> TRUE, trace |-> LookupTrace(fail),
          query |-> SentQuery(T, filter, fail)]
    ELSE LET recs == LookupRecords(g, NodeType(T), filter)
         IN [res |-> [i \in 1..Len(recs) |-> MapRecord(g, recs[i], filter)],
             err |-> FALSE,
             trace |-> LookupTrace(fail),
             query |-> SentQuery(T, filter, fail)]

\* A report without relations returns what the generic lookup returns.
DirectReport(op, T, ns, filter) ==
    /\ calls = 0
    /\ \E fail \in LookupFailures :
          LET r == getGenericDirectNodeReport(store[ns], T, filter, fail)
          IN last' = [op |-> op, ns |-> ns, T |-> T, filter |-> filter,
                      res |-> (IF r.err THEN <<>> ELSE r.res), err |-> r.err,
                      fail |-> fail, ts |-> now, trace |-> r.trace,
                      query |-> r.query]
    /\ calls' = calls + 1
    /\ UNCHANGED <<store, now>>

GetProcessesReport(ns, filter) == DirectReport("GetProcessesReport", "Process", ns, filter)

GetPodsReport(ns, filter) == DirectReport("GetPodsReport", "Pod", ns, filter)

(***************************************************************************)
(* The lookups run over a store written by the discovery process: up to    *)
(* two Process nodes, a Pod that shares the id of the first, and two       *)
(* classification nodes, with any IS edges from the former to the latter.  *)
(* A report only reads the store, so a behaviour makes one report call.    *)
(***************************************************************************)
LookupIds == {"p1", "p2", "zz"}

\* "owner" is a field name no entity type has.
LookupFields ==
    {<<>>, <<"node_id">>, <<"name">>, <<"name", "node_id">>, <<"owner", "node_id">>}

LookupFilter ==
    [InFieldFilter : LookupFields,
     NodeIds : {<<>>} \cup UNION {[1..n -> LookupIds] : n \in 1..MaxIds}]

PrimaryNodes ==
    {<<>>,
     <<[label |-> "Process", props |-> [node_id |-> "p1", name |-> BadValue]]>>,
     <<[label |-> "Process", props |-> [node_id |-> "p1", name |-> "init"]]>>,
     <<[label |-> "Process", props |-> [node_id |-> "p1", name |-> "init"]],
       [label |-> "Process", props |-> [node_id |-> "p2", name |-> "sshd"]]>>}

PodNodes == <<[label |-> "Pod", props |-> [node_id |-> "p1", name |-> "web"]]>>

ClassNodes ==
    <<[label |-> "Class", props |-> [node_id |-> "e1", name |-> "daemon", level |-> "low"]],
      [label |-> "Class", props |-> [node_id |-> "e2", level |-> "high"]]>>

LookupGraphs ==
    UNION {LET nodes == P \o PodNodes \o ClassNodes
               prim == 1..(Len(P) + Len(PodNodes))
               class == (Len(P) + Len(PodNodes) + 1)..Len(nodes)
           IN {[nodes |-> nodes, edges |-> {<<"IS", e[1], e[2]>> : e \in E}] :
                  E \in SUBSET (prim \X class)}
           : P \in PrimaryNodes}

LookupInit ==
    /\ store \in {[ns \in Namespaces |-> IF ns = "A" THEN g ELSE EmptyGraph] :
                    g \in LookupGraphs}
    /\ now = 0
    /\ calls = 0
    /\ last = NoCall

LookupNext ==
    \/ \E filter \in LookupFilter : GetProcessesReport("A", filter)
    \/ \E filter \in LookupFilter : GetPodsReport("A", filter)

LookupSpec == LookupInit /\ [][LookupNext]_vars

(***************************************************************************)
(* Lookups whose filter carries a window (LookupFilter.Window), with       *)
(* negative offsets and sizes among them.                                  *)
(***************************************************************************)
MaxWindow == 1

FetchWindow == [Offset : -1..MaxWindow, Size : -1..MaxWindow]

WindowFilter ==
    [InFieldFilter : {<<>>, <<"node_id">>},
     NodeIds : {<<>>, <<"p1">>},
     Window : FetchWindow]

WindowNext ==
    \/ \E filter \in WindowFilter : GetProcessesReport("A", filter)
    \/ \E filter \in WindowFilter : GetPodsReport("A", filter)

WindowSpec == LookupInit /\ [][WindowNext]_vars

(***************************************************************************)
(* Vocabulary of the properties.                                           *)
(***************************************************************************)
NodesOf(g, label) == {i \in NodeIdx(g) : g.nodes[i].label = label}

EdgesOf(g, type) == {e \in g.edges : e[1] = type}

Counts(g) ==
    [Rule |-> Cardinality(NodesOf(g, "Rule")),
     Secret |-> Cardinality(NodesOf(g, "Secret")),
     SecretScan |-> Cardinality(NodesOf(g, "SecretScan")),
     IS |-> Cardinality(EdgesOf(g, "IS")),
     DETECTED |-> Cardinality(EdgesOf(g, "DETECTED")),
     SCANNED |-> Cardinality(EdgesOf(g, "SCANNED"))]

HasProp(g, i, k, v) == k \in DOMAIN g.nodes[i].props /\ g.nodes[i].props[k] = v

\* The step is a call of a handler (and not the clock).
IsCall == calls' = calls + 1

OkSecrets(c) == c.op = "CommitFuncSecrets" /\ ~c.err

OkStatus(c) == c.op = "CommitFuncSecretScanStatus" /\ ~c.err /\ Len(c.data) > 0

RuleNodes(g, id) == {r \in NodesOf(g, "Rule") : HasProp(g, r, "node_id", id)}

\* Scan nodes of a (scan_id, host_name) pair.
ScanNodes(g, scan, host) ==
    {m \in NodesOf(g, "SecretScan") :
        HasProp(g, m, "node_id", scan) /\ HasProp(g, m, "host_name", host)}

HostNodes(g, host) == {l \in NodesOf(g, "Node") : HasProp(g, l, "node_id", host)}

\* The store of the namespace of the last call.
G == store[last.ns]

(***************************************************************************)
(* The relation queries of lookup.go.  A statement is a pattern over one   *)
(* or two node variables, a restriction of one variable's node_id to $ids  *)
(* and the variable it returns; a record holds the returned column only.   *)
(***************************************************************************)
\* MATCH (a:aLabel) -[:edge]-> (b:bLabel) WHERE w.node_id IN $ids RETURN ret
Hop(a, aLabel, edge, b, bLabel, w, ret) ==
    [kind |-> "hop", a |-> a, aLabel |-> aLabel, edge |-> edge, b |-> b,
     bLabel |-> bLabel, where |-> w, ret |-> ret]

HostContainersQuery == Hop("n", "Node", "HOSTS", "m", "Container", "n", "m")

HostPodsQuery == Hop("n", "Node", "HOSTS", "m", "Pod", "n", "m")

HostContainerImagesQuery == Hop("n", "Node", "HOSTS", "m", "ContainerImage", "n", "m")

RegistryImagesQuery == Hop("n", "RegistryAccount", "HOSTS", "m", "ContainerImage", "n", "m")

HostProcessesQuery == Hop("n", "Node", "HOSTS", "m", "Process", "n", "m")

ContainerProcessesQuery == Hop("n", "Container", "HOSTS", "m", "Process", "n", "m")

\* MATCH (n:Container) WHERE n.node_id IN $ids
\* MATCH (m:ContainerImage{node_id:n.docker_image_id}) RETURN m
ContainerContainerImagesQuery ==
    [kind |-> "join", a |-> "n", aLabel |-> "Container", edge |-> "docker_image_id",
     b |-> "m", bLabel |-> "ContainerImage", where |-> "n", ret |-> "m"]

\* MATCH (n:ContainerImage) WHERE n.node_id in $ids RETURN n
ContainerImageContainersQuery ==
    [kind |-> "self", a |-> "n", aLabel |-> "ContainerImage", edge |-> "",
     b |-> "n", bLabel |-> "ContainerImage", where |-> "n", ret |-> "n"]

\* MATCH (m:KubernetesCluster) -[:INSTANCIATE]-> (n:Node)
\* WHERE m.node_id IN $ids RETURN n
ClusterHostsQuery ==
    Hop("m", "KubernetesCluster", "INSTANCIATE", "n", "Node", "m", "n")

\* The records of a relation statement: one per match of the pattern, holding
\* the returned variable's node.
RelRecords(g, q, ids) ==
    LET as == SetToSeq({x \in NodesOf(g, q.aLabel) :
                  /\ "node_id" \in DOMAIN g.nodes[x].props
                  /\ InSeq(g.nodes[x].props["node_id"], ids)})
        Bs(x) ==
          CASE q.kind = "hop" ->
                 {y \in NodesOf(g, q.bLabel) : <<q.edge, x, y>> \in g.edges}
            [] q.kind = "join" ->
                 {y \in NodesOf(g, q.bLabel) :
                     /\ q.edge \in DOMAIN g.nodes[x].props
                     /\ HasProp(g, y, "node_id", g.nodes[x].props[q.edge])}
            [] OTHER -> {x}
        f[i \in 0..Len(as)] ==
          IF i = 0 THEN <<>>
          ELSE LET bs == SetToSeq(Bs(as[i]))
               IN f[i - 1] \o
                    [j \in 1..Len(bs) |->
                        (q.ret :> (IF q.ret = q.a THEN as[i] ELSE bs[j]))]
    IN f[Len(as)]

\* getIndirectFromIDs: the entities decoded from column "m" of the records; a
\* record without that column is passed over.
getIndirectFromIDs(g, q, ids, fail) ==
    IF fail # "none"
    THEN [res |-> <<>>, err |-> TRUE, trace |-> LookupTrace(fail)]
    ELSE LET recs == RelRecords(g, q, ids)
             f[i \in 0..Len(recs)] ==
               IF i = 0 THEN <<>>
               ELSE IF "m" \notin DOMAIN recs[i] THEN f[i - 1]
               ELSE Append(f[i - 1], FromMap(g.nodes[recs[i]["m"]].props))
         IN [res |-> f[Len(recs)], err |-> FALSE, trace |-> LookupTrace(fail)]

(***************************************************************************)
(* The reports with relations.  A relation of a report is the entity field *)
(* it fills, the function that fetches it, that function's statement and   *)
(* the InFieldFilter name the report tests for it.                         *)
(***************************************************************************)
ZeroEntity == [k \in EntityFields |-> ""]

\* The relation fields of a typed entity, as utils.FromMap leaves them.
NilRelations(T) ==
    CASE T = "Host" ->
           [processes |-> <<>>, containers |-> <<>>, container_images |-> <<>>,
            pods |-> <<>>]
      [] T = "Container" -> [processes |-> <<>>, image |-> ZeroEntity]
      [] T = "ContainerImage" -> [containers |-> <<>>]
      [] T = "KubernetesCluster" -> [hosts |-> <<>>]
      [] T = "RegistryAccount" -> [container_images |-> <<>>]

Rel(field, fn, q, flag) == [field |-> field, fn |-> fn, q |-> q, flag |-> flag]

\* getX := len(filter.InFieldFilter) == 0 || utils.InSlice(flag, filter.InFieldFilter)
Wanted(filter, flag) ==
    Len(filter.InFieldFilter) = 0 \/ InSeq(flag, filter.InFieldFilter)

WantedRels(filter, rels) == SelectSeq(rels, LAMBDA r : Wanted(filter, r.flag))

\* The relations each report fetches, in the order of its loop body.
HostRels(filter) ==
    WantedRels(filter,
        <<Rel("processes", "getHostProcesses", HostProcessesQuery, "processes"),
          Rel("containers", "getHostContainers", HostContainersQuery, "containers"),
          Rel("container_images", "getHostContainerImages", HostContainerImagesQuery,
              "container_images"),
          Rel("pods", "getHostPods", HostPodsQuery, "pods")>>)

ContainerRels(filter) ==
    WantedRels(filter,
        <<Rel("processes", "getContainerProcesses", ContainerProcessesQuery, "processes"),
          Rel("image", "getContainerContainerImages", ContainerContainerImagesQuery,
              "image")>>)

ContainerImageRels(filter) ==
    WantedRels(filter,
        <<Rel("containers", "getContainerImageContainers",
              ContainerImageContainersQuery, "image")>>)

ClusterRels(filter) ==
    WantedRels(filter, <<Rel("hosts", "getClusterHosts", ClusterHostsQuery, "hosts")>>)

\* GetRegistryAccountReport tests no flag: the relation is always fetched.
RegistryRels(filter) ==
    <<Rel("container_images", "getRegistryImages", RegistryImagesQuery, "")>>

\* The loop over the entities: each relation function is called with the
\* entity's ID; its result is stored when it returns no error.  A strict loop
\* returns at the first error.  bad holds the functions that fail, and step
\* the store call at which they do.
Enrich(g, ents, rels, bad, step, strict) ==
    LET R == Len(rels)
        f[k \in 0..(Len(ents) * R)] ==
          IF k = 0 THEN [ents |-> ents, enrich |-> <<>>, err |-> FALSE]
          ELSE LET p == f[k - 1]
                   i == ((k - 1) \div R) + 1
                   rel == rels[((k - 1) % R) + 1]
                   ids == <<p.ents[i]["node_id"]>>
                   fail == IF rel.fn \in bad THEN step ELSE "none"
                   r == getIndirectFromIDs(g, rel.q, ids, fail)
               IN IF p.err THEN p
                  ELSE [ents |->
                           IF r.err THEN p.ents
                           ELSE IF rel.field = "image"
                           THEN (IF Len(r.res) > 0
                                 THEN [p.ents EXCEPT ![i]["image"] = r.res[1]]
                                 ELSE p.ents)
                           ELSE [p.ents EXCEPT ![i][rel.field] = r.res],
                        enrich |-> Append(p.enrich,
                                          [fn |-> rel.fn, ids |-> ids,
                                           fail |-> fail, trace |-> r.trace]),
                        err |-> strict /\ r.err]
    IN f[Len(ents) * R]

\* A report: the generic lookup, then the loop over its entities.
RelationReport(op, T, ns, filter, rels, strict) ==
    /\ calls = 0
    /\ \E fail \in LookupFailures, bad \in SUBSET {rels[j].fn : j \in DOMAIN rels},
          step \in LookupFailures \ {"none"} :
          /\ fail # "none" => bad = {}
          /\ bad = {} => step = "run"
          /\ LET g == store[ns]
                 r == getGenericDirectNodeReport(g, T, filter, fail)
                 ents == [i \in DOMAIN r.res |-> r.res[i] @@ NilRelations(T)]
                 e == Enrich(g, ents, rels, bad, step, strict)
                 err == r.err \/ e.err
             IN last' = [op |-> op, ns |-> ns, T |-> T, filter |-> filter,
                         res |-> (IF err THEN <<>> ELSE e.ents), err |-> err,
                         fail |-> fail, bad |-> bad, ts |-> now, trace |-> r.trace,
                         query |-> r.query,
                         enrich |-> (IF r.err THEN <<>> ELSE e.enrich)]
    /\ calls' = calls + 1
    /\ UNCHANGED <<store, now>>

GetHostsReport(ns, filter) ==
    RelationReport("GetHostsReport", "Host", ns, filter, HostRels(filter), FALSE)

GetContainersReport(ns, filter) ==
    RelationReport("GetContainersReport", "Container", ns, filter,
                   ContainerRels(filter), FALSE)

GetContainerImagesReport(ns, filter) ==
    RelationReport("GetContainerImagesReport", "ContainerImage", ns, filter,
                   ContainerImageRels(filter), FALSE)

GetKubernetesClustersReport(ns, filter) ==
    RelationReport("GetKubernetesClustersReport", "KubernetesCluster", ns, filter,
                   ClusterRels(filter), FALSE)

GetRegistryAccountReport(ns, filter) ==
    RelationReport("GetRegistryAccountReport", "RegistryAccount", ns, filter,
                   RegistryRels(filter), TRUE)

(***************************************************************************)
(* The reports run over a store written by the discovery process: two      *)
(* hosts, two processes, two containers (one naming its image), an image,  *)
(* a pod, a cluster and a registry account, with or without the edges      *)
(* between them.                                                           *)
(***************************************************************************)
ReportNodes ==
    <<[label |-> "Node", props |-> [node_id |-> "h1", name |-> "alpha"]],
      [label |-> "Node", props |-> [node_id |-> "h2", name |-> "beta"]],
      [label |-> "Process", props |-> [node_id |-> "p1", name |-> "init"]],
      [label |-> "Process", props |-> [node_id |-> "p2", name |-> "sshd"]],
      [label |-> "Container",
       props |-> [node_id |-> "c1", name |-> "web", docker_image_id |-> "i1"]],
      [label |-> "Container", props |-> [node_id |-> "c2", name |-> "db"]],
      [label |-> "ContainerImage", props |-> [node_id |-> "i1", name |-> "nginx"]],
      [label |-> "Pod", props |-> [node_id |-> "d1", name |-> "front"]],
      [label |-> "KubernetesCluster", props |-> [node_id |-> "k1", name |-> "prod"]],
      [label |-> "RegistryAccount", props |-> [node_id |-> "r1", name |-> "hub"]]>>

BaseEdges ==
    {<<"HOSTS", 1, 3>>, <<"HOSTS", 1, 5>>, <<"HOSTS", 1, 7>>, <<"HOSTS", 1, 8>>,
     <<"HOSTS", 5, 4>>, <<"INSTANCIATE", 9, 1>>, <<"HOSTS", 10, 7>>}

MoreEdges ==
    {<<"HOSTS", 1, 4>>, <<"HOSTS", 2, 6>>, <<"INSTANCIATE", 9, 2>>}

ReportGraphs ==
    {[nodes |-> ReportNodes, edges |-> {}]}
        \cup {[nodes |-> ReportNodes, edges |-> BaseEdges \cup E] : E \in SUBSET MoreEdges}

ReportFields ==
    {<<>>, <<"node_id">>, <<"processes">>, <<"node_id", "processes">>,
     <<"node_id", "image">>, <<"node_id", "containers">>, <<"node_id", "hosts">>,
     <<"node_id", "container_images">>,
     <<"node_id", "processes", "containers", "container_images", "pods">>,
     <<"processes", "containers", "container_images", "pods">>}

ReportIds == {<<>>, <<"h1">>, <<"c1">>, <<"i1">>, <<"k1">>, <<"r1">>}

ReportFilter == [InFieldFilter : ReportFields, NodeIds : ReportIds]

ReportInit ==
    /\ store \in {[ns \in Namespaces |-> IF ns = "A" THEN g ELSE EmptyGraph] :
                    g \in ReportGraphs}
    /\ now = 0
    /\ calls = 0
    /\ last = NoCall

ReportNext ==
    \/ \E filter \in ReportFilter : GetHostsReport("A", filter)
    \/ \E filter \in ReportFilter : GetContainersReport("A", filter)
    \/ \E filter \in ReportFilter : GetContainerImagesReport("A", filter)
    \/ \E filter \in ReportFilter : GetKubernetesClustersReport("A", filter)
    \/ \E filter \in ReportFilter : GetRegistryAccountReport("A", filter)

ReportSpec == ReportInit /\ [][ReportNext]_vars

(***************************************************************************)
(* Reports and ingestion calls over the same stores.                       *)
(***************************************************************************)
FirstStatus(data) == calls = 0 /\ CommitFuncSecretScanStatus("A", data)

CallNext ==
    \/ ReportNext
    \/ \E filter \in ReportFilter : GetProcessesReport("A", filter)
    \/ \E filter \in ReportFilter : GetPodsReport("A", filter)
    \/ \E data \in NsSecrets : FirstCommit(data)
    \/ \E data \in {<<>>} \cup NsStatuses : FirstStatus(data)

CallSpec == ReportInit /\ [][CallNext]_vars

(***************************************************************************)
(* C1                                                                      *)
(***************************************************************************)
\* C1: a second successful CommitFuncSecrets of the identical batch, in the
\* same namespace and over the same asset nodes, leaves the numbers of Rule,
\* Secret and SecretScan nodes and of IS, DETECTED and SCANNED edges as they
\* were after the first.
C1_RerunKeepsCounts ==
    [][(/\ IsCall
        /\ OkSecrets(last)
        /\ OkSecrets(last')
        /\ last'.ns = last.ns
        /\ last'.data = last.data)
        => Counts(store'[last.ns]) = Counts(store[last.ns])]_vars

(***************************************************************************)
(* C2                                                                      *)
(***************************************************************************)
\* An item counts as written when its Rule node, a Finding carrying its
\* composite key and classified by that Rule, and its Scan node are stored.
ItemWritten(g, s, ts) ==
    /\ RuleNodes(g, s.Rule.ID) # {}
    /\ \E n \in NodesOf(g, "Secret") :
          /\ \/ HasProp(g, n, "node_id", RuleKey(s.Rule.ID, s.HostName))
             \/ HasProp(g, n, "rule_id", RuleKey(s.Rule.ID, s.HostName))
          /\ \E r \in RuleNodes(g, s.Rule.ID) : <<"IS", n, r>> \in g.edges
    /\ \E m \in ScanNodes(g, s.ScanID, s.HostName) : HasProp(g, m, "time_stamp", ts)

C3_FindingWithoutAsset ==
    OkSecrets(last) =>
        \A i \in DOMAIN last.data :
            LET s == last.data[i]
                row == secretsToMaps(last.data)[i].Secret
            IN (/\ HostNodes(G, s.HostName) = {}
                /\ \A j \in DOMAIN last.data :
                      j > i => secretsToMaps(last.data)[j].Secret["rule_id"] # row["rule_id"])
               => \E n \in NodesOf(G, "Secret") :
                     /\ \A k \in DOMAIN row \ {"node_id"} : HasProp(G, n, k, row[k])
                     /\ \E m \in ScanNodes(G, s.ScanID, s.HostName) :
                           /\ <<"DETECTED", m, n>> \in G.edges
                           /\ \A e \in EdgesOf(G, "SCANNED") : e[2] # m

(***************************************************************************)
(* C4                                                                      *)
(***************************************************************************)
CompositeKeys == {RuleKey(id, host) : id \in RuleIds, host \in HostNames}

\* C4: after CommitFuncSecrets of the one Secret rule.id=1, host_name="h1",
\* node_id="s1", scan_id="scan1" over the asset node "h1": a Rule keyed 1, a
\* Finding keyed "1:h1" with an IS edge to that Rule, and a Scan ("scan1","h1")
\* with a DETECTED edge to the Finding and a SCANNED edge to the host; and
\* every Finding is keyed by a composite key "<rule.id>:<host_name>".
C4_ScenarioKeyed ==
    /\ (/\ OkSecrets(last)
        /\ Len(last.data) = 1
        /\ last.data[1].Rule.ID = 1
        /\ last.data[1].HostName = "h1")
       => \E r \in RuleNodes(G, 1), n \in NodesOf(G, "Secret"),
             m \in ScanNodes(G, "scan1", "h1"), l \in HostNodes(G, "h1") :
             /\ HasProp(G, n, "node_id", "1:h1")
             /\ <<"IS", n, r>> \in G.edges
             /\ <<"DETECTED", m, n>> \in G.edges
             /\ <<"SCANNED", m, l>> \in G.edges
    /\ \A ns \in Namespaces :
          \A n \in NodesOf(store[ns], "Secret") :
             store[ns].nodes[n].props["node_id"] \in CompositeKeys

(***************************************************************************)
(* C5                                                                      *)
(***************************************************************************)
\* C5: there is at most one SecretScan node per (scan_id, host_name) pair, and
\* after a successful CommitFuncSecrets the node of every pair of the batch
\* carries the time of that write.
C5_OneScanPerPair ==
    /\ \A ns \in Namespaces, scan \in ScanIds, host \in HostNames :
          Cardinality(ScanNodes(store[ns], scan, host)) <= 1
    /\ OkSecrets(last) =>
          \A i \in DOMAIN last.data :
             \A m \in ScanNodes(G, last.data[i].ScanID, last.data[i].HostName) :
                HasProp(G, m, "time_stamp", last.ts)

(***************************************************************************)
(* C6                                                                      *)
(***************************************************************************)
\* The Rule group of the last item of the batch that names rule id.
LastRule(data, id) ==
    LET I == {i \in DOMAIN data : data[i].Rule.ID = id}
    IN data[CHOOSE i \in I : \A j \in I : j <= i].Rule

\* C6: there is never more than one Rule node per rule id, and every step
\* keeps one Rule node per ingested rule id: a successful CommitFuncSecrets
\* leaves exactly one Rule node for each rule id of its batch, with the
\* properties of the last item of the batch naming that rule; the Rule nodes
\* of every other rule id, and all Rule nodes in any other step, stay as they
\* are (none exists initially).
C6_OneRulePerId ==
    /\ [](\A ns \in Namespaces, id \in RuleIds :
             Cardinality(RuleNodes(store[ns], id)) <= 1)
    /\ [][\A ns \in Namespaces, id \in RuleIds :
             IF /\ IsCall
                /\ OkSecrets(last')
                /\ last'.ns = ns
                /\ \E i \in DOMAIN last'.data : last'.data[i].Rule.ID = id
             THEN \E r \in NodesOf(store'[ns], "Rule") :
                     /\ RuleNodes(store'[ns], id) = {r}
                     /\ store'[ns].nodes[r].props =
                           [node_id |-> id, id |-> id,
                            name |-> LastRule(last'.data, id).Name]
             ELSE /\ RuleNodes(store'[ns], id) = RuleNodes(store[ns], id)
                  /\ \A r \in RuleNodes(store[ns], id) :
                        store'[ns].nodes[r] = store[ns].nodes[r]]_vars

\* Two batches were stored; rule 1 came with both names and now carries "n2",
\* on one Rule node, while several findings refer to it.
C6_Witness ==
    /\ calls = 2
    /\ OkSecrets(last)
    /\ Len(last.data) = 2
    /\ last.data[1].Rule = [ID |-> 1, Name |-> "n1"]
    /\ last.data[2].Rule = [ID |-> 1, Name |-> "n2"]
    /\ Cardinality(RuleNodes(G, 1)) = 1
    /\ \E r \in RuleNodes(G, 1) :
          /\ HasProp(G, r, "name", "n2")
          /\ Cardinality({e \in EdgesOf(G, "IS") : e[3] = r}) >= 2

(***************************************************************************)
(* C7                                                                      *)
(***************************************************************************)
\* C7: CommitFuncSecretScanStatus with an empty batch makes no store call (no
\* client acquisition, no session, no transaction) and returns success.
C7_EmptyBatchNoStoreCall ==
    (last.op = "CommitFuncSecretScanStatus" /\ Len(last.data) = 0)
        => last.trace = <<>> /\ ~last.err

(***************************************************************************)
(* C8                                                                      *)
(***************************************************************************)
\* The status of the last record of the batch for scan.
LastStatus(data, scan) ==
    LET I == {i \in DOMAIN data : data[i].ScanID = scan}
    IN data[CHOOSE i \in I : \A j \in I : j <= i].ScanStatus

\* Nodes that hold the status of scan.
StatusNodes(g, scan) ==
    {n \in NodesOf(g, "SecretScan") :
        HasProp(g, n, "node_id", scan) /\ "status" \in DOMAIN g.nodes[n].props}

\* C8: after a CommitFuncSecretScanStatus whose batch holds several records of
\* one scan_id with different statuses, exactly one status node exists for
\* that scan_id and it holds the status of the last such record.
C8_LastStatusWins ==
    OkStatus(last) =>
        \A i, j \in DOMAIN last.data :
            (/\ i < j
             /\ last.data[i].ScanID = last.data[j].ScanID
             /\ last.data[i].ScanStatus # last.data[j].ScanStatus)
            => \E n \in NodesOf(G, "SecretScan") :
                  /\ StatusNodes(G, last.data[i].ScanID) = {n}
                  /\ HasProp(G, n, "status", LastStatus(last.data, last.data[i].ScanID))

(***************************************************************************)
(* C9                                                                      *)
(***************************************************************************)
OkLookup(c) == c.op \in {"GetProcessesReport", "GetPodsReport"} /\ ~c.err

\* The entities of a result that carry id.
WithId(res, id) == {i \in DOMAIN res : res[i]["node_id"] = id}

\* The ids of the nodes of T's label in the store.
StoredIds(g, T) == {g.nodes[n].props["node_id"] : n \in NodesOf(g, NodeType(T))}

ReturnsId(filter) ==
    Len(filter.InFieldFilter) = 0 \/ InSeq("node_id", filter.InFieldFilter)

\* C9: a lookup with empty NodeIds returns exactly one entity per node of the
\* type's label: as many entities as there are such nodes and, where the id is
\* among the returned fields, each node's id on exactly one entity, whatever
\* the number of IS edges leaving the node.
C9_AllNodesOnce ==
    (OkLookup(last) /\ Len(last.filter.NodeIds) = 0)
        => /\ Len(last.res) = Cardinality(NodesOf(G, NodeType(last.T)))
           /\ ReturnsId(last.filter)
                 => \A id \in StoredIds(G, last.T) :
                       Cardinality(WithId(last.res, id)) = 1

(***************************************************************************)
(* C10                                                                     *)
(***************************************************************************)
\* C10: a lookup with a non-empty NodeIds S, under any InFieldFilter, returns
\* only entities whose id is in S, and one entity for every id of S that the
\* store holds under the type's label.
C10_SelectedNodesOnce ==
    (OkLookup(last) /\ Len(last.filter.NodeIds) > 0)
        => /\ \A i \in DOMAIN last.res :
                 InSeq(last.res[i]["node_id"], last.filter.NodeIds)
           /\ \A id \in StoredIds(G, last.T) :
                 InSeq(id, last.filter.NodeIds)
                    => Cardinality(WithId(last.res, id)) = 1

(***************************************************************************)
(* C11                                                                     *)
(***************************************************************************)
IsLookup(c) == c.op \in {"GetProcessesReport", "GetPodsReport"}

\* The names of a filter that are not fields of the entity type.
UnknownFields(filter) ==
    {filter.InFieldFilter[i] : i \in DOMAIN filter.InFieldFilter} \ EntityFields

\* C11: a lookup whose InFieldFilter holds a name that is not a field of the
\* entity type returns an error without any store call, and the name appears
\* in no statement sent to the store.
C11_UnknownFieldRejected ==
    (IsLookup(last) /\ UnknownFields(last.filter) # {})
        => /\ last.err
           /\ last.trace = <<>>
           /\ \A f \in UnknownFields(last.filter), i \in DOMAIN last.query :
                 last.query[i] # "n." \o f

(***************************************************************************)
(* C12                                                                     *)
(***************************************************************************)
IsReport(c, op) == c.op = op /\ ~c.err

\* The ids of the entities of a relation field.
IdsOf(ents) == {ents[i]["node_id"] : i \in DOMAIN ents}

\* The ids of the nodes of label reached by an edge of type from the node of
\* srcLabel that carries id.
Related(g, srcLabel, id, type, label) ==
    {g.nodes[y].props["node_id"] :
        y \in {z \in NodesOf(g, label) :
                 \E x \in NodesOf(g, srcLabel) :
                    HasProp(g, x, "node_id", id) /\ <<type, x, z>> \in g.edges}}

\* C12: GetHostsReport with InFieldFilter = ["processes"] for host "h1", no
\* query failing, returns the one host with processes holding the processes
\* that "h1" hosts, with containers, pods and container_images unset, and
\* calls no relation function but getHostProcesses.
C12_HostProcessesOnly ==
    (/\ IsReport(last, "GetHostsReport")
     /\ last.filter = [InFieldFilter |-> <<"processes">>, NodeIds |-> <<"h1">>]
     /\ last.bad = {})
        => /\ Len(last.res) = 1
           /\ \A i \in DOMAIN last.res :
                 /\ IdsOf(last.res[i]["processes"]) =
                       Related(G, "Node", "h1", "HOSTS", "Process")
                 /\ last.res[i]["containers"] = <<>>
                 /\ last.res[i]["pods"] = <<>>
                 /\ last.res[i]["container_images"] = <<>>
           /\ \A k \in DOMAIN last.enrich : last.enrich[k].fn = "getHostProcesses"

(***************************************************************************)
(* C13                                                                     *)
(***************************************************************************)
\* The nodes a lookup of label under filter selects, in the order of its
\* records.
Selected(g, label, filter) ==
    SetToSeq({n \in NodesOf(g, label) :
                 \/ Len(filter.NodeIds) = 0
                 \/ /\ "node_id" \in DOMAIN g.nodes[n].props
                    /\ InSeq(g.nodes[n].props["node_id"], filter.NodeIds)})

\* The ids of the nodes of label that node n reaches by an edge of type.
RelatedOf(g, n, type, label) ==
    {g.nodes[y].props["node_id"] :
        y \in {z \in NodesOf(g, label) : <<type, n, z>> \in g.edges}}

HostFns == {"getHostProcesses", "getHostContainers", "getHostContainerImages",
            "getHostPods"}

\* The lookup succeeded, all four host relations are asked for, and of their
\* queries exactly those of getHostProcesses fail.
OnlyProcessesFail(c) ==
    /\ c.op = "GetHostsReport"
    /\ c.fail = "none"
    /\ c.bad = {"getHostProcesses"}
    /\ \A f \in {"processes", "containers", "container_images", "pods"} :
          Wanted(c.filter, f)

\* C13: when the getHostProcesses queries fail and the queries of the other
\* three host relations succeed, GetHostsReport returns success with one host
\* per selected node, each with the containers, images and pods its node
\* hosts and with processes empty.
C13_ProcessesFailureIsolated ==
    OnlyProcessesFail(last)
        => /\ ~last.err
           /\ LET sel == Selected(G, "Node", last.filter)
              IN /\ Len(last.res) = Len(sel)
                 /\ \A i \in DOMAIN last.res :
                       /\ last.res[i]["processes"] = <<>>
                       /\ IdsOf(last.res[i]["containers"]) =
                             RelatedOf(G, sel[i], "HOSTS", "Container")
                       /\ IdsOf(last.res[i]["container_images"]) =
                             RelatedOf(G, sel[i], "HOSTS", "ContainerImage")
                       /\ IdsOf(last.res[i]["pods"]) =
                             RelatedOf(G, sel[i], "HOSTS", "Pod")

(***************************************************************************)
(* C14                                                                     *)
(***************************************************************************)
RelationReports ==
    {"GetHostsReport", "GetContainersReport", "GetContainerImagesReport",
     "GetKubernetesClustersReport", "GetRegistryAccountReport"}

\* The relations a report fetches under a filter.
RelsOf(op, filter) ==
    CASE op = "GetHostsReport" -> HostRels(filter)
      [] op = "GetContainersReport" -> ContainerRels(filter)
      [] op = "GetContainerImagesReport" -> ContainerImageRels(filter)
      [] op = "GetKubernetesClustersReport" -> ClusterRels(filter)
      [] op = "GetRegistryAccountReport" -> RegistryRels(filter)

\* A relation query of the call failed.
EnrichmentFailed(c) ==
    /\ c.op \in RelationReports
    /\ c.fail = "none"
    /\ \E k \in DOMAIN c.enrich : c.enrich[k].fn \in c.bad

\* C14: a report whose lookup succeeded and of which a relation query failed
\* returns success, with one entity per selected node and the failed relation
\* empty on each.
C14_EnrichmentFailureIsolated ==
    EnrichmentFailed(last)
        => /\ ~last.err
           /\ Len(last.res) = Len(Selected(G, NodeType(last.T), last.filter))
           /\ \A i \in DOMAIN last.res :
                 LET rels == RelsOf(last.op, last.filter)
                 IN \A j \in DOMAIN rels :
                       rels[j].fn \in last.bad
                          => last.res[i][rels[j].field]
                                = NilRelations(last.T)[rels[j].field]

(***************************************************************************)
(* C15                                                                     *)
(***************************************************************************)
IsWrite(c) == c.op \in {"CommitFuncSecrets", "CommitFuncSecretScanStatus"}

\* C15: a call of CommitFuncSecrets or CommitFuncSecretScanStatus under one
\* namespace, whatever its outcome, leaves the graph of every other namespace
\* exactly as it was: nodes, properties and edges.
C15_NamespaceIsolation ==
    [][(IsCall /\ IsWrite(last'))
        => \A ns \in Namespaces \ {last'.ns} : store'[ns] = store[ns]]_vars

\* Both namespaces were written, the last call under "B", and they differ.
C15_Witness ==
    /\ calls = 2
    /\ OkSecrets(last)
    /\ last.ns = "B"
    /\ NodesOf(store["A"], "SecretScan") # {}
    /\ NodesOf(store["B"], "Secret") # {}
    /\ store["A"] # store["B"]

(***************************************************************************)
(* C16                                                                     *)
(***************************************************************************)
NoFilter == [InFieldFilter |-> <<>>, NodeIds |-> <<>>]

\* Every relation of a report: those it fetches when no field is named.
AllRels(op) == RelsOf(op, NoFilter)

\* The relation function was called during the call.
Enriched(c, fn) == \E k \in DOMAIN c.enrich : c.enrich[k].fn = fn

\* C16: in a report that selected at least one node and of which no query
\* failed, every relation of the entity type is fetched when InFieldFilter is
\* empty, and otherwise a relation is fetched exactly when the name of its own
\* field is in InFieldFilter.
C16_EnrichIffNamed ==
    (/\ last.op \in RelationReports
     /\ last.fail = "none"
     /\ last.bad = {}
     /\ Len(Selected(G, NodeType(last.T), last.filter)) > 0)
        => \A j \in DOMAIN AllRels(last.op) :
              LET rel == AllRels(last.op)[j]
              IN Enriched(last, rel.fn)
                    <=> \/ Len(last.filter.InFieldFilter) = 0
                        \/ InSeq(rel.field, last.filter.InFieldFilter)

(***************************************************************************)
(* C17                                                                     *)
(***************************************************************************)
\* The ids of the containers whose docker_image_id names image node n.
UsersOf(g, n) ==
    {g.nodes[c].props["node_id"] :
        c \in {d \in NodesOf(g, "Container") :
                 /\ "docker_image_id" \in DOMAIN g.nodes[d].props
                 /\ g.nodes[d].props["docker_image_id"] = g.nodes[n].props["node_id"]}}

\* C17: with an empty InFieldFilter and no query failing,
\* GetKubernetesClustersReport returns each cluster with the hosts its node
\* reaches by an INSTANCIATE edge, and GetContainerImagesReport returns each
\* image with the containers that use it.
C17_ClusterHostsImageContainers ==
    (/\ last.op \in {"GetKubernetesClustersReport", "GetContainerImagesReport"}
     /\ last.fail = "none"
     /\ last.bad = {}
     /\ Len(last.filter.InFieldFilter) = 0)
        => LET sel == Selected(G, NodeType(last.T), last.filter)
           IN /\ Len(last.res) = Len(sel)
              /\ \A i \in DOMAIN last.res :
                    IF last.op = "GetKubernetesClustersReport"
                    THEN IdsOf(last.res[i]["hosts"]) =
                            RelatedOf(G, sel[i], "INSTANCIATE", "Node")
                    ELSE IdsOf(last.res[i]["containers"]) = UsersOf(G, sel[i])

(***************************************************************************)
(* C18                                                                     *)
(***************************************************************************)
\* The Scan nodes CommitFuncSecrets wrote: those keyed by scan and host.
KeyedScans(g) ==
    {m \in NodesOf(g, "SecretScan") : "host_name" \in DOMAIN g.nodes[m].props}

\* The statuses stored for scan.
StatusesOf(g, scan) ==
    {g.nodes[n].props["status"] : n \in StatusNodes(g, scan)}

\* C18: a call of CommitFuncSecretScanStatus leaves every Scan node keyed by
\* (scan_id, host_name) as it was, and a call of CommitFuncSecrets leaves the
\* stored statuses of every scan_id as they were.
C18_StatusIndependentOfScan ==
    [][IsCall
        => /\ last'.op = "CommitFuncSecretScanStatus"
                 => \A m \in KeyedScans(store[last'.ns]) :
                       store'[last'.ns].nodes[m] = store[last'.ns].nodes[m]
           /\ last'.op = "CommitFuncSecrets"
                 => \A scan \in ScanIds :
                       StatusesOf(store'[last'.ns], scan)
                          = StatusesOf(store[last'.ns], scan)]_vars

(***************************************************************************)
(* C19                                                                     *)
(***************************************************************************)
\* The map decodes into the typed entity: every field it names has a value of
\* the field's type.
Decodable(m) == \A k \in EntityFields \cap DOMAIN m : m[k] # BadValue

\* C19: a successful lookup returns one entity per record whose map decodes,
\* and none for a record whose map does not.
C19_UndecodableSkipped ==
    OkLookup(last)
        => LET recs == LookupRecords(G, NodeType(last.T), last.filter)
           IN Len(last.res) =
                 Cardinality({i \in DOMAIN recs :
                                 Decodable(MergedMap(G, recs[i], last.filter))})

(***************************************************************************)
(* C20                                                                     *)
(***************************************************************************)
\* Entity ent, made from a record of primary node n joined to classification
\* node e, has the id the projection returned of n, and for every other field
\* that both nodes carry the value of e.
OverlayOf(g, ent, n, e, filter) ==
    /\ ent["node_id"] =
          (IF ReturnsId(filter) THEN g.nodes[n].props["node_id"] ELSE "")
    /\ ent["node_id"] # g.nodes[e].props["node_id"]
    /\ \A k \in EntityFields \ {"node_id"} :
          (k \in DOMAIN g.nodes[n].props /\ k \in DOMAIN g.nodes[e].props)
             => ent[k] = g.nodes[e].props[k]

\* C20: in a successful lookup, every entity made from a record that joins a
\* classification node has its node_id from the primary node, never from the
\* classification node, and carries the classification node's value for every
\* other field present on both nodes.
C20_OverlayKeepsId ==
    OkLookup(last)
        => LET recs == LookupRecords(G, NodeType(last.T), last.filter)
           IN /\ Len(last.res) = Len(recs)
              /\ \A i \in DOMAIN recs :
                    recs[i].e # 0
                       => OverlayOf(G, last.res[i], recs[i].n, recs[i].e, last.filter)

\* A lookup returned a process that is joined to a classification node of
\* another name: the entity has the process' id and the classification's name.
C20_Witness ==
    /\ OkLookup(last)
    /\ ReturnsId(last.filter)
    /\ LET recs == LookupRecords(G, NodeType(last.T), last.filter)
       IN \E i \in DOMAIN recs :
             /\ recs[i].e # 0
             /\ "name" \in DOMAIN G.nodes[recs[i].e].props
             /\ G.nodes[recs[i].n].props["name"] # G.nodes[recs[i].e].props["name"]
             /\ last.res[i]["name"] = G.nodes[recs[i].e].props["name"]
             /\ last.res[i]["node_id"] = G.nodes[recs[i].n].props["node_id"]

(***************************************************************************)
(* C21                                                                     *)
(***************************************************************************)
\* The ids of the entities of a page, in order.
PageIds(res) == [i \in DOMAIN res |-> res[i]["node_id"]]

\* C21: a report that returned at least one entity and of which no query
\* failed issues one relation query per fetched relation, each with the ids
\* of the whole page, whatever the number of entities.
C21_BulkEnrichment ==
    (/\ last.op \in RelationReports
     /\ last.fail = "none"
     /\ last.bad = {}
     /\ Len(last.res) > 0)
        => LET rels == RelsOf(last.op, last.filter)
           IN /\ Len(last.enrich) = Len(rels)
              /\ \A k \in DOMAIN last.enrich :
                    last.enrich[k].ids = PageIds(last.res)

(***************************************************************************)
(* C22                                                                     *)
(***************************************************************************)
\* Map m carries every key of group at top level, with the group's value.
Spreads(m, group) == \A k \in DOMAIN group : k \in DOMAIN m /\ m[k] = group[k]

\* C22: the Finding map CommitFuncSecrets builds of every record of its batch
\* has no key Rule, Match or Severity, and carries at top level every property
\* of the record's Rule, Match and Severity groups.
C22_GroupsFlattened ==
    last.op = "CommitFuncSecrets"
        => \A i \in DOMAIN last.data :
              LET m == secretsToMaps(last.data)[i].Secret
                  s == last.data[i]
              IN /\ DOMAIN m \cap {"Rule", "Match", "Severity"} = {}
                 /\ Spreads(m, MatchToMap(s.Match))
                 /\ Spreads(m, SeverityToMap(s.Severity))
                 /\ Spreads(m, RuleToMap(s.Rule))

\* C22 (amended): the Finding map of every record has no key Rule, Match or
\* Severity and carries at top level every property of the record's Match and
\* Severity groups and the composite rule_id; the properties of the Rule
\* group are not in the Finding map but make up the item's separate Rule map.
C22_MatchSeverityFlattened ==
    last.op = "CommitFuncSecrets"
        => \A i \in DOMAIN last.data :
              LET item == secretsToMaps(last.data)[i]
                  m == item.Secret
                  s == last.data[i]
              IN /\ DOMAIN m \cap {"Rule", "Match", "Severity"} = {}
                 /\ Spreads(m, MatchToMap(s.Match))
                 /\ Spreads(m, SeverityToMap(s.Severity))
                 /\ m["rule_id"] = RuleKey(s.Rule.ID, s.HostName)
                 /\ DOMAIN m \cap DOMAIN RuleToMap(s.Rule) = {}
                 /\ item.Rule = RuleToMap(s.Rule)

\* A batch of two was stored: a Finding carries the Match and Severity
\* properties and no Rule property, and the Rule node carries the Rule's.
C22_Witness ==
    /\ OkSecrets(last)
    /\ Len(last.data) = 2
    /\ \E n \in NodesOf(G, "Secret") :
          /\ HasProp(G, n, "matched_content", "y")
          /\ HasProp(G, n, "level", "high")
          /\ "name" \notin DOMAIN G.nodes[n].props
    /\ \E r \in NodesOf(G, "Rule") : HasProp(G, r, "name", "n2")

(***************************************************************************)
(* C23                                                                     *)
(***************************************************************************)
\* The Finding nodes of a composite key: merged under it, or carrying it.
FindingsOf(g, key) ==
    {n \in NodesOf(g, "Secret") :
        HasProp(g, n, "node_id", key) \/ HasProp(g, n, "rule_id", key)}

\* C23: after a successful CommitFuncSecrets whose batch holds two items of
\* one composite key with different properties, exactly one Finding node
\* exists for that key, and it carries the properties of the later item.
C23_LaterItemWins ==
    OkSecrets(last)
        => \A i, j \in DOMAIN last.data :
              LET maps == secretsToMaps(last.data)
                  key == maps[i].Secret["rule_id"]
              IN (/\ i < j
                  /\ maps[j].Secret["rule_id"] = key
                  /\ maps[i].Secret # maps[j].Secret
                  /\ \A k \in DOMAIN last.data : k > j => maps[k].Secret["rule_id"] # key)
                 => \E n \in NodesOf(G, "Secret") :
                       /\ FindingsOf(G, key) = {n}
                       /\ \A p \in DOMAIN maps[j].Secret \ {"node_id"} :
                             HasProp(G, n, p, maps[j].Secret[p])

(***************************************************************************)
(* C24                                                                     *)
(***************************************************************************)
\* The store call what was made in trace t and did not fail.
Opened(t, fail, what) == InSeq(what, t) /\ fail # what

ClosedAfter(t, open, close) ==
    \E i, j \in DOMAIN t : i < j /\ t[i] = open /\ t[j] = close

\* Every session and transaction opened in t is closed later in t.
Released(t, fail) ==
    /\ Opened(t, fail, "session") => ClosedAfter(t, "session", "session.Close")
    /\ Opened(t, fail, "begin") => ClosedAfter(t, "begin", "tx.Close")

\* C24: every call (a report's lookup, each of its relation queries, an
\* ingestion call), whatever its outcome, has closed the session and the
\* transaction it opened when it returns.
C24_SessionsReleased ==
    last.op # "none"
        => /\ Released(last.trace, last.fail)
           /\ "enrich" \in DOMAIN last
                 => \A k \in DOMAIN last.enrich :
                       Released(last.enrich[k].trace, last.enrich[k].fail)

\* A report returned whose relation queries failed at Collect, with their
\* transactions open then, next to relation queries that succeeded.
C24_Witness ==
    /\ last.op = "GetHostsReport"
    /\ ~last.err
    /\ \E k \in DOMAIN last.enrich :
          /\ last.enrich[k].fail = "collect"
          /\ InSeq("tx.Close", last.enrich[k].trace)
    /\ \E k \in DOMAIN last.enrich : last.enrich[k].fail = "none"

(***************************************************************************)
(* C25                                                                     *)
(***************************************************************************)
\* Two nodes of the label agree on every key of keys.
SameKey(g, i, j, keys) ==
    \A k \in keys :
        /\ k \in DOMAIN g.nodes[i].props
        /\ k \in DOMAIN g.nodes[j].props
        /\ g.nodes[i].props[k] = g.nodes[j].props[k]

Duplicates(g, label, keys) ==
    {p \in NodesOf(g, label) \X NodesOf(g, label) :
        p[1] < p[2] /\ SameKey(g, p[1], p[2], keys)}

\* C25: when two CommitFuncSecrets calls of one namespace have both
\* committed, whichever committed last, the store holds no two Rule nodes of
\* one rule id, no two Findings of one composite key and no two Scan nodes
\* of one (scan_id, host_name) pair.
C25_RaceLeavesNoDuplicate ==
    (calls = 2 /\ OkSecrets(last))
        => /\ Duplicates(G, "Rule", {"node_id"}) = {}
           /\ Duplicates(G, "Secret", {"rule_id"}) = {}
           /\ Duplicates(G, "SecretScan", {"node_id", "host_name"}) = {}

(***************************************************************************)
(* C26                                                                     *)
(***************************************************************************)
\* Every node of g is a node of h with its label, every edge of g an edge
\* of h.
NothingDeleted(g, h) ==
    /\ Len(g.nodes) <= Len(h.nodes)
    /\ \A i \in NodeIdx(g) : h.nodes[i].label = g.nodes[i].label
    /\ g.edges \subseteq h.edges

\* g and h hold the same asset nodes with the same properties.
SameAssets(g, h) ==
    /\ NodesOf(g, "Node") = NodesOf(h, "Node")
    /\ \A i \in NodesOf(g, "Node") : h.nodes[i].props = g.nodes[i].props

\* Every edge with an asset node at one end is a SCANNED edge.
OnlyScannedRefs(g) ==
    \A e \in g.edges :
        (g.nodes[e[2]].label = "Node" \/ g.nodes[e[3]].label = "Node")
            => e[1] = "SCANNED"

\* C26: no step of an ingestion call, failing or not, deletes a node or an
\* edge or creates or changes an asset node, and the edges that touch an
\* asset node are SCANNED edges only.
C26_AssetsUntouched ==
    [][\A ns \in Namespaces :
          /\ NothingDeleted(store[ns], store'[ns])
          /\ SameAssets(store[ns], store'[ns])
          /\ OnlyScannedRefs(store'[ns])]_vars

\* A batch was committed that names a host with an asset node (now scanned)
\* and a host without one, after an earlier call.
C26_Witness ==
    /\ calls = 2
    /\ OkSecrets(last)
    /\ \E i, j \in DOMAIN last.data :
          /\ HostNodes(G, last.data[i].HostName) # {}
          /\ HostNodes(G, last.data[j].HostName) = {}
    /\ EdgesOf(G, "SCANNED") # {}
    /\ Cardinality(NodesOf(G, "Secret")) > 1

(***************************************************************************)
(* C27                                                                     *)
(***************************************************************************)
NegativeWindow(filter) == filter.Window.Offset < 0 \/ filter.Window.Size < 0

\* C27: a lookup whose filter carries a negative window offset or size
\* returns an error and makes no store call.
C27_NegativeWindowRejected ==
    (IsLookup(last) /\ NegativeWindow(last.filter))
        => last.err /\ last.trace = <<>>

(***************************************************************************)
(* C28                                                                     *)
(***************************************************************************)
\* C28: CommitFuncSecretScanStatus with an empty batch for which acquiring
\* the client failed returns success, having made the client call only.
C28_EmptyBatchHidesClientError ==
    (last.op = "CommitFuncSecretScanStatus" /\ Len(last.data) = 0
        /\ last.fail = "client")
        => ~last.err /\ last.trace = <<"client">>

\* An empty status batch came back without error from a namespace whose
\* client could not be acquired and whose store holds assets.
C28_Witness ==
    /\ calls = 1
    /\ last.op = "CommitFuncSecretScanStatus"
    /\ last.data = <<>>
    /\ last.fail = "client"
    /\ ~last.err
    /\ NodesOf(G, "Node") # {}

(***************************************************************************)
(* C29                                                                     *)
(***************************************************************************)
\* The distinct (Rule.ID, HostName) pairs of a batch.
KeyPairs(data) == {<<data[i].Rule.ID, data[i].HostName>> : i \in DOMAIN data}

\* C29: after the first CommitFuncSecrets on a store without findings, there
\* are at most as many Secret nodes as distinct (Rule.ID, HostName) pairs in
\* the batch, and two items of one rule on different hosts carry different
\* composite keys.
C29_FindingsBoundedByKeys ==
    (calls = 1 /\ OkSecrets(last))
        => /\ Cardinality(NodesOf(G, "Secret")) <= Cardinality(KeyPairs(last.data))
           /\ \A i, j \in DOMAIN last.data :
                 (/\ last.data[i].Rule.ID = last.data[j].Rule.ID
                  /\ last.data[i].HostName # last.data[j].HostName)
                    => secretsToMaps(last.data)[i].Secret["rule_id"]
                          # secretsToMaps(last.data)[j].Secret["rule_id"]

\* Two findings of one rule on one host with different matched content were
\* committed and one Finding node stands for both.
C29_Witness ==
    /\ calls = 1
    /\ OkSecrets(last)
    /\ Len(last.data) = 2
    /\ last.data[1].Match # last.data[2].Match
    /\ Cardinality(KeyPairs(last.data)) = 1
    /\ Cardinality(NodesOf(G, "Secret")) = 1

(***************************************************************************)
(* C30                                                                     *)
(***************************************************************************)
Reports == RelationReports \cup {"GetProcessesReport", "GetPodsReport"}

\* C30: a report whose primary lookup failed, at whichever store call,
\* returns the error and no entity, and has called no relation function.
C30_PrimaryFailureStops ==
    (last.op \in Reports /\ last.fail # "none")
        => /\ last.err
           /\ last.res = <<>>
           /\ last.op \in RelationReports => last.enrich = <<>>

\* GetHostsReport with no filter over a store that holds hosts failed at
\* Collect of its lookup: the hosts and their relations were there to fetch.
C30_Witness ==
    /\ last.op = "GetHostsReport"
    /\ last.fail = "collect"
    /\ last.err
    /\ last.filter = NoFilter
    /\ Len(Selected(G, "Node", last.filter)) > 0
    /\ last.enrich = <<>>

====
